---- MODULE Spec2Model ----
(***************************************************************************)
(* Rotation-period pipeline of Praesepe_K2: the aperture selector          *)
(* (choose_initial_k2sff) and the peak analysis of run_one, in the two     *)
(* source variants c5_analysis.py ("c5") and c5_k2sff_analysis.py          *)
(* ("k2sff").                                                              *)
(*                                                                         *)
(* Numbers.  Periods and powers are IEEE-754 binary64 values in the code.  *)
(* The model takes them from the integers (every integer below 2^53 is a   *)
(* binary64 value), so comparisons between them are exact.  The two        *)
(* quotients of run_one (period_ratio, power_ratio) and the differences    *)
(* period_ratio-0.5 and period_ratio-2.0 are computed as binary64 computes *)
(* them: correctly rounded, round-half-to-even.  A binary64 value is the   *)
(* record [hi, lo, e] standing for (hi * 2^26 + lo) * 2^e, with            *)
(* 2^52 <= hi * 2^26 + lo < 2^53, or FZero.                                *)
(***************************************************************************)
EXTENDS Integers, Sequences, FiniteSets

\* ------------------------------------------------------------ binary64

B26 == 2^26
B27 == 2^27

FZero == [hi |-> 0, lo |-> 0, e |-> 0]

\* floor(log2(n/d)) for integers n, d > 0
RECURSIVE DivExp(_, _)
DivExp(n, d) ==
    IF n >= 2 * d THEN DivExp(n, 2 * d) + 1
    ELSE IF n < d THEN DivExp(2 * n, d) - 1
    ELSE 0

\* k further quotient bits of the long division by D, 1 <= k <= 4:
\* st = [q, r] is the quotient so far and the remainder, r < D < 2^27
DivStep(st, D, k) ==
    [q |-> st.q * 2^k + ((st.r * 2^k) \div D), r |-> (st.r * 2^k) % D]

\* 26 further quotient bits
DivBits26(st, D) ==
    DivStep(DivStep(DivStep(DivStep(DivStep(DivStep(DivStep(
        st, D, 4), D, 4), D, 4), D, 4), D, 4), D, 4), D, 2)

\* the next binary64 value above a positive one
FInc(x) ==
    IF x.lo + 1 < B26 THEN [x EXCEPT !.lo = x.lo + 1]
    ELSE IF x.hi + 1 < B27 THEN [x EXCEPT !.hi = x.hi + 1, !.lo = 0]
    ELSE [hi |-> B26, lo |-> 0, e |-> x.e + 1]

\* n / d in binary64, for integers 0 < n, d < 2^26: the 53 leading bits of
\* the quotient, rounded to nearest, ties to even
FDiv(n, d) ==
    LET E  == DivExp(n, d)
        N0 == IF E >= 0 THEN n ELSE n * 2^(0 - E)
        D0 == IF E >= 0 THEN d * 2^E ELSE d
        h  == DivBits26([q |-> 1, r |-> N0 - D0], D0)
        l  == DivBits26([q |-> 0, r |-> h.r], D0)
        x  == [hi |-> h.q, lo |-> l.q, e |-> E - 52]
    IN  IF 2 * l.r > D0 \/ (2 * l.r = D0 /\ l.q % 2 = 1) THEN FInc(x) ELSE x

\* a positive value (hi * 2^26 + lo) * 2^e with hi <= 2^27, brought to
\* 2^52 <= mantissa < 2^53; FZero when the mantissa is 0
RECURSIVE FNorm(_)
FNorm(x) ==
    IF x.hi = 0 /\ x.lo = 0 THEN FZero
    ELSE IF x.hi >= B27 THEN [hi |-> B26, lo |-> 0, e |-> x.e + 1]
    ELSE IF x.hi >= B26 THEN x
    ELSE FNorm([hi |-> 2 * x.hi + (x.lo \div (B26 \div 2)),
                lo |-> (2 * x.lo) % B26, e |-> x.e - 1])

\* the mantissa of x divided by 2^s (s >= 1) and rounded to an integer,
\* ties to even, as the pair [hi, lo]
RoundShift(x, s) ==
    IF s >= 54 THEN [hi |-> 0, lo |-> 0]
    ELSE IF s = 53
      THEN [hi |-> 0, lo |-> IF x.hi = B26 /\ x.lo = 0 THEN 0 ELSE 1]
    ELSE LET q == IF s <= 26
                  THEN [hi |-> x.hi \div 2^s,
                        lo |-> (x.hi % 2^s) * 2^(26 - s) + (x.lo \div 2^s)]
                  ELSE [hi |-> 0, lo |-> x.hi \div 2^(s - 26)]
             \* the bits shifted out against one half: -1 below, 0 tie, 1 above
             cmp == IF s <= 26
                    THEN LET r == x.lo % 2^s
                             half == 2^(s - 1)
                         IN  IF r > half THEN 1 ELSE IF r = half THEN 0 ELSE -1
                    ELSE LET rh == x.hi % 2^(s - 26)
                             half == 2^(s - 27)
                         IN  IF rh > half \/ (rh = half /\ x.lo > 0) THEN 1
                             ELSE IF rh = half /\ x.lo = 0 THEN 0 ELSE -1
             up == cmp = 1 \/ (cmp = 0 /\ q.lo % 2 = 1)
         IN  IF ~up THEN q
             ELSE IF q.lo + 1 < B26 THEN [q EXCEPT !.lo = q.lo + 1]
             ELSE [hi |-> q.hi + 1, lo |-> 0]

\* 2^53 - (m.hi * 2^26 + m.lo), as the pair [hi, lo]
From2p53(m) ==
    IF m.lo = 0 THEN [hi |-> B27 - m.hi, lo |-> 0]
    ELSE [hi |-> B27 - m.hi - 1, lo |-> B26 - m.lo]

\* abs(x - 2^j) in binary64, for a positive binary64 x with x.e < j.
\* x >= 2^j: the difference is a multiple of 2^(x.e) below 2^53 * 2^(x.e),
\* exact.  x < 2^j: the difference is rounded at the precision of its own
\* binade.
FAbsSubPow2(x, j) ==
    LET d == j - x.e
    IN  IF d <= 52
        THEN FNorm(IF d < 26
                   THEN IF x.lo >= 2^d
                        THEN [x EXCEPT !.lo = x.lo - 2^d]
                        ELSE [x EXCEPT !.hi = x.hi - 1, !.lo = x.lo + B26 - 2^d]
                   ELSE [x EXCEPT !.hi = x.hi - 2^(d - 26)])
        ELSE IF d = 53
        THEN LET k == From2p53(x)
             IN  FNorm([hi |-> k.hi, lo |-> k.lo, e |-> x.e])
        ELSE LET k == From2p53(RoundShift(x, d - 53))
             IN  FNorm([hi |-> k.hi, lo |-> k.lo, e |-> x.e + (d - 53)])

\* a <= b, a > b for binary64 values >= 0
FLeq(a, b) ==
    IF a = FZero THEN TRUE
    ELSE IF b = FZero THEN FALSE
    ELSE \/ a.e < b.e
         \/ a.e = b.e /\ a.hi < b.hi
         \/ a.e = b.e /\ a.hi = b.hi /\ a.lo <= b.lo

FGt(a, b) == ~FLeq(a, b)

\* ------------------------------------------------------------- bounds

\* order of argrelextrema: 100 in the source, scaled down with the grid
Order == 1
\* points of the period grid (thousands in the source)
NGrid == 7
\* periodogram powers are 0..MaxPower, the threshold sigmas[0] is 0..MaxSigma
MaxPower == 2
MaxSigma == 1
\* maximum periodogram power of one K2SFF extension: 1..MaxPeakPower
MaxPeakPower == 2
\* powers of given significant peaks (SpecClassify): 1..MaxSigPower
MaxSigPower == 3

\* ---------------------------------------------------------- constants

Sentinel == -9999
\* no value yet (a local not assigned so far)
Unset == -1
\* upper period bound of the significance filter, k2sff variant (days)
PeriodBound == 35
\* the scanned extensions are FirstExt .. LastExt = np.arange(2,21,1)
FirstExt == 2
LastExt == 20
\* length of peak_power in the c5 variant: np.zeros(21)
PeakPowerLen == 21

Variants == {"c5", "k2sff"}

\* ------------------------------------------------------- numpy arrays
\* A 1-D array is a sequence; numpy's index i is position i + 1.

At(a, i) == a[i + 1]

\* np.argmax(a), a not empty: the first index of the maximum
ArgMaxLast(a) ==
    CHOOSE i \in 0..(Len(a) - 1) :
        \A j \in 0..(Len(a) - 1) :
            /\ At(a, j) <= At(a, i)
            /\ j > i => At(a, j) < At(a, i)

ArgMax(a) ==
    CHOOSE i \in 0..(Len(a) - 1) :
        \A j \in 0..(Len(a) - 1) :
            /\ At(a, j) <= At(a, i)
            /\ j < i => At(a, j) < At(a, i)

\* np.delete(a, i)
Delete(a, i) == [k \in 1..(Len(a) - 1) |-> IF k <= i THEN a[k] ELSE a[k + 1]]

\* a[locs], locs an array of indices
Take(a, locs) == [k \in 1..Len(locs) |-> At(a, locs[k])]

\* the elements of a set of integers in ascending order
Ascending(S) ==
    [k \in 1..Cardinality(S) |->
        CHOOSE i \in S : Cardinality({j \in S : j < i}) = k - 1]

Range(a) == {a[k] : k \in 1..Len(a)}

\* ndarray.take(..., mode='clip'): an index off the array is the nearest end
Clip(i, n) == IF i < 0 THEN 0 ELSE IF i > n - 1 THEN n - 1 ELSE i

\* scipy.signal.argrelextrema(data, np.greater, order=order)[0]
\* (mode='clip', the default): i is kept when data[i] is greater than the
\* element at every shift 1..order to either side, an index off the array
\* read as the nearest end.  The first and the last index are compared with
\* themselves and so are never kept.
ArgRelExtremaWrap(data, order) ==
    Ascending({i \in 0..(Len(data) - 1) :
        \A s \in 1..order :
            /\ At(data, i) > At(data, (i + s) % Len(data))
            /\ At(data, i) > At(data, (i - s) % Len(data))})

ArgRelExtrema(data, order) ==
    Ascending({i \in 0..(Len(data) - 1) :
        \A s \in 1..order :
            /\ At(data, i) > At(data, Clip(i + s, Len(data)))
            /\ At(data, i) > At(data, Clip(i - s, Len(data)))})

\* ------------------------------------------------- run_one, the parts

\* the literals 0.05 and 0.5 as binary64 values
Tol == FDiv(1, 20)
HalfF == FDiv(1, 2)

\* Significance filter: peak_locs[mask].  c5: power > sigmas[0];
\* k2sff: power > sigmas[0] and period < 35.
SigLocsGeq(v, locs, power, periods, thr) ==
    SelectSeq(locs, LAMBDA i :
        /\ At(power, i) >= thr
        /\ v = "k2sff" => At(periods, i) < PeriodBound)

SigLocsNoBound(v, locs, power, periods, thr) ==
    SelectSeq(locs, LAMBDA i : At(power, i) > thr)

SigLocs(v, locs, power, periods, thr) ==
    SelectSeq(locs, LAMBDA i :
        /\ At(power, i) > thr
        /\ v = "k2sff" => At(periods, i) < PeriodBound)

\* Peak ranker: the most powerful significant peak, then the most powerful
\* of the rest (np.delete of the first, np.argmax of what is left)
RankedFirst(sp, spw) ==
    IF Len(spw) > 0
    THEN IF Len(spw) > 1
         THEN LET second_significant == ArgMax(Delete(spw, 0))
              IN  [most_sig_period |-> At(sp, 0),
                   most_sig_power  |-> At(spw, 0),
                   sec_period |-> At(Delete(sp, 0), second_significant),
                   sec_power  |-> At(Delete(spw, 0), second_significant)]
         ELSE [most_sig_period |-> At(sp, 0), most_sig_power |-> At(spw, 0),
               sec_period |-> Sentinel, sec_power |-> Sentinel]
    ELSE [most_sig_period |-> Sentinel, most_sig_power |-> Sentinel,
          sec_period |-> Sentinel, sec_power |-> Sentinel]

Ranked(sp, spw) ==
    IF Len(spw) > 0
    THEN LET most_significant == ArgMax(spw)
         IN  IF Len(spw) > 1
             THEN LET trim_periods == Delete(sp, most_significant)
                      trim_powers  == Delete(spw, most_significant)
                      second_significant == ArgMax(trim_powers)
                  IN  [most_sig_period |-> At(sp, most_significant),
                       most_sig_power  |-> At(spw, most_significant),
                       sec_period |-> At(trim_periods, second_significant),
                       sec_power  |-> At(trim_powers, second_significant)]
             ELSE [most_sig_period |-> At(sp, most_significant),
                   most_sig_power  |-> At(spw, most_significant),
                   sec_period |-> Sentinel, sec_power |-> Sentinel]
    ELSE [most_sig_period |-> Sentinel, most_sig_power |-> Sentinel,
          sec_period |-> Sentinel, sec_power |-> Sentinel]

\* harm_type + "-maybe"
WithMaybe(h) == h \o "-maybe"

\* the operands of the two divisions sec_period / most_sig_period and
\* sec_power / most_sig_power
Operands(r) == <<r.sec_period, r.most_sig_period, r.sec_power, r.most_sig_power>>

\* Harmonic classifier: [extra_sig, harm_type] from the number of significant
\* peaks and the two ranked peaks r, and the operands of the divisions it
\* made (<<>> when it made none)
ClassifiedDblCounted(num, r) ==
    IF num > 1
    THEN LET period_ratio == FDiv(r.sec_period, r.most_sig_period)
             power_ratio  == FDiv(r.sec_power, r.most_sig_power)
             half == FLeq(FAbsSubPow2(period_ratio, -1), Tol)
             dbl  == FLeq(FAbsSubPow2(period_ratio, 1), Tol)
             h    == IF half THEN "half" ELSE IF dbl THEN "dbl" ELSE "-"
         IN  [extra_sig |-> IF half THEN num - 2 ELSE num - 1,
              harm_type |-> IF h # "-" /\ FGt(power_ratio, HalfF)
                            THEN WithMaybe(h) ELSE h,
              divided |-> Operands(r)]
    ELSE [extra_sig |-> 0, harm_type |-> "-", divided |-> <<>>]

ClassifiedMaybeGeq(num, r) ==
    IF num > 1
    THEN LET period_ratio == FDiv(r.sec_period, r.most_sig_period)
             power_ratio  == FDiv(r.sec_power, r.most_sig_power)
             half == FLeq(FAbsSubPow2(period_ratio, -1), Tol)
             dbl  == FLeq(FAbsSubPow2(period_ratio, 1), Tol)
             h    == IF half THEN "half" ELSE IF dbl THEN "dbl" ELSE "-"
         IN  [extra_sig |-> IF half \/ dbl THEN num - 2 ELSE num - 1,
              harm_type |-> IF h # "-" /\ FLeq(HalfF, power_ratio)
                            THEN WithMaybe(h) ELSE h,
              divided |-> Operands(r)]
    ELSE [extra_sig |-> 0, harm_type |-> "-", divided |-> <<>>]

\* the ratios taken from one significant peak on: the secondary is then the
\* sentinel, the period ratio negative, no harmonic
ClassifiedFromOne(num, r) ==
    IF num > 1
    THEN LET period_ratio == FDiv(r.sec_period, r.most_sig_period)
             power_ratio  == FDiv(r.sec_power, r.most_sig_power)
             half == FLeq(FAbsSubPow2(period_ratio, -1), Tol)
             dbl  == FLeq(FAbsSubPow2(period_ratio, 1), Tol)
             h    == IF half THEN "half" ELSE IF dbl THEN "dbl" ELSE "-"
         IN  [extra_sig |-> IF half \/ dbl THEN num - 2 ELSE num - 1,
              harm_type |-> IF h # "-" /\ FGt(power_ratio, HalfF)
                            THEN WithMaybe(h) ELSE h,
              divided |-> Operands(r)]
    ELSE IF num > 0
    THEN [extra_sig |-> num - 1, harm_type |-> "-", divided |-> Operands(r)]
    ELSE [extra_sig |-> 0, harm_type |-> "-", divided |-> <<>>]

Classified(num, r) ==
    IF num > 1
    THEN LET period_ratio == FDiv(r.sec_period, r.most_sig_period)
             power_ratio  == FDiv(r.sec_power, r.most_sig_power)
             half == FLeq(FAbsSubPow2(period_ratio, -1), Tol)
             dbl  == FLeq(FAbsSubPow2(period_ratio, 1), Tol)
             h    == IF half THEN "half" ELSE IF dbl THEN "dbl" ELSE "-"
         IN  [extra_sig |-> IF half \/ dbl THEN num - 2 ELSE num - 1,
              harm_type |-> IF h # "-" /\ FGt(power_ratio, HalfF)
                            THEN WithMaybe(h) ELSE h,
              divided |-> Operands(r)]
    ELSE [extra_sig |-> 0, harm_type |-> "-", divided |-> <<>>]

\* --------------------------------------------------------------- state

VARIABLES
    variant,            \* "c5": c5_analysis.py, "k2sff": c5_k2sff_analysis.py
    \* choose_initial_k2sff
    cpc,                \* "idle", "scan", "done", "raised"
    ext,                \* the extension the loop scans next
    peak_power,         \* the array peak_power
    best_ext,           \* the returned extension
    \* run_one
    pc,                 \* "idle", "ls", "print", "filter", "rank",
                        \* "classify", "done", "raised"
    periods_to_test,    \* ls_out: the period grid (days)
    periodogram,        \* ls_out: the power at each period
    sigma,              \* sigmas[0]
    peak_locs, sig_locs, sig_periods, sig_powers, num_sig,
    most_sig_period, most_sig_power, sec_period, sec_power,
    extra_sig, harm_type,
    divided,            \* the operands of the divisions made, <<>> if none
    \* run_list
    lpc,                \* "idle", "loop", "written", "raised"
    list_filenames,     \* the targets handed to run_list
    i_file,             \* i of the loop: the index of the next target
    time_flux,          \* time, flux: the index of the target whose light
                        \* curve the two names are bound to, Unset if unbound
    epics,              \* epics[i]: the target named in row i, as its
                        \* position in the list counted from 1 (0: not set)
    results,            \* fund_periods[i] .. harm_types[i]: the index of the
                        \* target whose light curve row i was computed from
    table,              \* the table at.write emitted
    \* __main__
    mpc,                \* "idle", "start", "sliced", "called"
    arrayid,            \* PBS_ARRAYID
    file_list,          \* the target list read from the list file
    mini, maxi,
    sub_list

cvars == <<cpc, ext, peak_power, best_ext>>
lsvars == <<periods_to_test, periodogram, sigma>>
rvars == <<pc, peak_locs, sig_locs, sig_periods, sig_powers, num_sig,
           most_sig_period, most_sig_power, sec_period, sec_power,
           extra_sig, harm_type, divided>>
bvars == <<lpc, list_filenames, i_file, time_flux, epics, results, table>>
mvars == <<mpc, arrayid, file_list, mini, maxi, sub_list>>
vars == <<variant, cvars, lsvars, rvars, bvars, mvars>>

\* ------------------------------------------------------------ run_one

\* The period grids prot.run_ls hands back: ascending, positive, NGrid long.
\* Three grids in days; a longer grid goes on in steps of one day.
GridA == <<5, 9, 10, 11, 20, 40, 60>>
GridB == <<4, 10, 20, 21, 39, 41, 70>>
GridC == <<3, 11, 12, 20, 24, 30, 50>>
Extend(g) ==
    [k \in 1..NGrid |-> IF k <= Len(g) THEN g[k] ELSE g[Len(g)] + (k - Len(g))]
Grids == {Extend(GridA), Extend(GridB), Extend(GridC)}

BatchIdle ==
    /\ lpc = "idle" /\ list_filenames = <<>> /\ i_file = Unset
    /\ time_flux = Unset /\ epics = <<>> /\ results = <<>> /\ table = <<>>

MainIdle ==
    /\ mpc = "idle" /\ arrayid = Unset /\ file_list = <<>>
    /\ mini = Unset /\ maxi = Unset /\ sub_list = <<>>

ChooserIdle ==
    /\ cpc = "idle" /\ ext = Unset /\ peak_power = <<>> /\ best_ext = Unset

RunOneLocalsUnset ==
    /\ peak_locs = <<>> /\ sig_locs = <<>>
    /\ sig_periods = <<>> /\ sig_powers = <<>>
    /\ num_sig = Unset
    /\ most_sig_period = Unset /\ most_sig_power = Unset
    /\ sec_period = Unset /\ sec_power = Unset
    /\ extra_sig = Unset /\ harm_type = "" /\ divided = <<>>

\* run_one after prot.run_ls has returned (line 155 / 129)
Init ==
    /\ variant \in Variants
    /\ BatchIdle /\ MainIdle
    /\ ChooserIdle
    /\ pc = "ls"
    /\ periods_to_test \in Grids
    /\ periodogram \in [1..NGrid -> 0..MaxPower]
    /\ sigma \in 0..MaxSigma
    /\ RunOneLocalsUnset

\* peak_locs = argrelextrema(periodogram, np.greater, order=100)
Extract ==
    /\ pc = "ls"
    /\ peak_locs' = ArgRelExtrema(periodogram, Order)
    /\ pc' = "print"
    /\ UNCHANGED <<variant, bvars, mvars, cvars, lsvars, sig_locs, sig_periods, sig_powers,
                   num_sig, most_sig_period, most_sig_power, sec_period,
                   sec_power, extra_sig, harm_type, divided>>

\* print(len(peak_locs), periods_to_test[np.argmax(peak_locs)]): np.argmax
\* of an empty array raises ValueError
PrintPeaks ==
    /\ pc = "print"
    /\ pc' = IF Len(peak_locs) = 0 THEN "raised" ELSE "filter"
    /\ UNCHANGED <<variant, bvars, mvars, cvars, lsvars, peak_locs, sig_locs, sig_periods,
                   sig_powers, num_sig, most_sig_period, most_sig_power,
                   sec_period, sec_power, extra_sig, harm_type, divided>>

\* sig_locs, sig_periods, sig_powers
Filter ==
    /\ pc = "filter"
    /\ LET locs == SigLocs(variant, peak_locs, periodogram, periods_to_test, sigma)
       IN  /\ sig_locs' = locs
           /\ sig_periods' = Take(periods_to_test, locs)
           /\ sig_powers' = Take(periodogram, locs)
    /\ pc' = "rank"
    /\ UNCHANGED <<variant, bvars, mvars, cvars, lsvars, peak_locs, num_sig,
                   most_sig_period, most_sig_power, sec_period, sec_power,
                   extra_sig, harm_type, divided>>

\* num_sig = len(sig_locs) and the if num_sig>0 ... else block
Rank ==
    /\ pc = "rank"
    /\ num_sig' = Len(sig_locs)
    /\ LET r == Ranked(sig_periods, sig_powers)
       IN  /\ most_sig_period' = r.most_sig_period
           /\ most_sig_power' = r.most_sig_power
           /\ sec_period' = r.sec_period
           /\ sec_power' = r.sec_power
    /\ pc' = "classify"
    /\ UNCHANGED <<variant, bvars, mvars, cvars, lsvars, peak_locs, sig_locs, sig_periods,
                   sig_powers, extra_sig, harm_type, divided>>

\* extra_sig, harm_type and the return
Classify ==
    /\ pc = "classify"
    /\ LET c == Classified(num_sig,
                    [most_sig_period |-> most_sig_period,
                     most_sig_power |-> most_sig_power,
                     sec_period |-> sec_period, sec_power |-> sec_power])
       IN  /\ extra_sig' = c.extra_sig
           /\ harm_type' = c.harm_type
           /\ divided' = c.divided
    /\ pc' = "done"
    /\ UNCHANGED <<variant, bvars, mvars, cvars, lsvars, peak_locs, sig_locs, sig_periods,
                   sig_powers, num_sig, most_sig_period, most_sig_power,
                   sec_period, sec_power>>

Next == Extract \/ PrintPeaks \/ Filter \/ Rank \/ Classify

Spec == Init /\ [][Next]_vars

\* ------------------------------ run_one from the significant peaks on
\* The ranker and the classifier applied to given significant peaks.  The
\* periods are in units of 2^-18 day: both periods of a quotient scale by
\* the same power of two, which leaves the binary64 quotient unchanged.

PeriodPairs ==
    { <<9 * 2^16, 20 * 2^16>>,      \* 0.45 and 20/9
      <<11 * 2^16, 20 * 2^16>>,     \* 0.55 and 20/11
      <<549999, 1000000>>,          \* 0.549999
      <<5500001, 10000000>>,        \* 0.5500001
      <<4500001, 10000000>>,        \* 0.4500001
      <<449999, 1000000>>,          \* 0.449999
      <<20 * 2^16, 39 * 2^16>>,     \* 1.95 and 20/39
      <<20 * 2^16, 41 * 2^16>>,     \* 2.05 and 20/41
      <<1000000, 2049999>>,         \* 2.049999
      <<10000000, 20500001>>,       \* 2.0500001
      <<10 * 2^16, 20 * 2^16>>,     \* 0.5 and 2.0
      <<10 * 2^16, 30 * 2^16>> }    \* no harmonic

RunOneInputsUnread ==
    /\ periods_to_test = <<>> /\ periodogram = <<>> /\ sigma = Unset
    /\ peak_locs = <<>> /\ sig_locs = <<>>

InitClassify ==
    /\ variant \in Variants
    /\ BatchIdle /\ MainIdle
    /\ ChooserIdle
    /\ pc = "rank"
    /\ RunOneInputsUnread
    /\ sig_periods \in PeriodPairs
    /\ sig_powers \in [1..2 -> 1..MaxSigPower]
    /\ num_sig = Unset
    /\ most_sig_period = Unset /\ most_sig_power = Unset
    /\ sec_period = Unset /\ sec_power = Unset
    /\ extra_sig = Unset /\ harm_type = "" /\ divided = <<>>

\* num_sig = len(sig_locs): the filter made sig_locs, sig_periods and
\* sig_powers equally long
RankGiven ==
    /\ pc = "rank"
    /\ num_sig' = Len(sig_powers)
    /\ LET r == Ranked(sig_periods, sig_powers)
       IN  /\ most_sig_period' = r.most_sig_period
           /\ most_sig_power' = r.most_sig_power
           /\ sec_period' = r.sec_period
           /\ sec_power' = r.sec_power
    /\ pc' = "classify"
    /\ UNCHANGED <<variant, bvars, mvars, cvars, lsvars, peak_locs, sig_locs, sig_periods,
                   sig_powers, extra_sig, harm_type, divided>>

NextClassify == RankGiven \/ Classify

SpecClassify == InitClassify /\ [][NextClassify]_vars

\* ------------------------------------------------ choose_initial_k2sff

\* extensions = np.arange(2,21,1)
Extensions == [k \in 1..(LastExt - FirstExt + 1) |-> FirstExt + k - 1]

\* np.zeros(n)
Zeros(n) == [k \in 1..n |-> 0]

\* the element of peak_power the loop writes for extension e:
\* c5 peak_power[ext], k2sff peak_power[i] with i, ext in enumerate(extensions)
SlotOf(v, e) == IF v = "c5" THEN e ELSE e - FirstExt

\* best_ext = np.arange(2,21,1)[np.argmax(peak_power)]; the index of an
\* element the array does not have raises IndexError
BestExt(pp) ==
    LET idx == ArgMax(pp)
    IN  IF idx <= Len(Extensions) - 1
        THEN [raised |-> FALSE, ext |-> At(Extensions, idx)]
        ELSE [raised |-> TRUE, ext |-> Unset]

RunOneIdle ==
    /\ pc = "idle"
    /\ RunOneInputsUnread
    /\ sig_periods = <<>> /\ sig_powers = <<>>
    /\ num_sig = Unset
    /\ most_sig_period = Unset /\ most_sig_power = Unset
    /\ sec_period = Unset /\ sec_power = Unset
    /\ extra_sig = Unset /\ harm_type = "" /\ divided = <<>>

InitAperture ==
    /\ variant \in Variants
    /\ BatchIdle /\ MainIdle
    /\ cpc = "scan"
    /\ ext = FirstExt
    /\ peak_power = IF variant = "c5" THEN Zeros(PeakPowerLen)
                    ELSE Zeros(Len(Extensions))
    /\ best_ext = Unset
    /\ RunOneIdle

\* one turn of the loop: the periodogram of extension ext has maximum p
ScanExt ==
    /\ cpc = "scan"
    /\ ext <= LastExt
    /\ \E p \in 1..MaxPeakPower :
          peak_power' = [peak_power EXCEPT ![SlotOf(variant, ext) + 1] = p]
    /\ ext' = ext + 1
    /\ UNCHANGED <<variant, bvars, mvars, cpc, best_ext, lsvars, rvars>>

\* after the loop: best_ext and the return
ReturnBest ==
    /\ cpc = "scan"
    /\ ext > LastExt
    /\ LET b == BestExt(peak_power)
       IN  IF b.raised
           THEN cpc' = "raised" /\ best_ext' = best_ext
           ELSE cpc' = "done" /\ best_ext' = b.ext
    /\ UNCHANGED <<variant, bvars, mvars, ext, peak_power, lsvars, rvars>>

NextAperture == ScanExt \/ ReturnBest

SpecAperture == InitAperture /\ [][NextAperture]_vars

\* ----------------------------------------------------------- run_list
\* A target is a file name of the list: kind is which of "k2sff", "k2sc" the
\* name contains ("other": neither), fault is where processing its file
\* raises: "read" in k2sff_io / k2sc_io, "aperture" in choose_initial_k2sff
\* (the IndexError of BestExt), "run_one" in run_one on its light curve (the
\* ValueError of PrintPeaks), "none" nowhere.  The light curve of a target
\* is named by the target's index in the list.

\* targets of one call (hundreds in the source)
MaxFiles == 3

Kinds == {"k2sff", "k2sc", "other"}
Faults == {"none", "read", "aperture", "run_one"}
Targets == [kind : Kinds, fault : Faults]

\* all lists of at most n targets
ListsUpTo(n) == UNION {[1..k -> Targets] : k \in 0..n}

\* the loop body reads the target's file: the k2sff variant always, the c5
\* variant under if "k2sff" in filename / elif "k2sc" in filename
ReadsFile(v, f) == v = "k2sff" \/ f.kind \in {"k2sff", "k2sc"}

\* the loop body calls choose_initial_k2sff
ChoosesAperture(v, f) == v = "k2sff" \/ f.kind = "k2sff"

\* time, flux after the reading part of iteration k on target f
BoundAfter(v, f, k, bound) == IF ReadsFile(v, f) THEN k ELSE bound

\* the reading part of the iteration raises
ReadRaises(v, f) ==
    \/ ChoosesAperture(v, f) /\ f.fault = "aperture"
    \/ ReadsFile(v, f) /\ f.fault = "read"

\* run_one(time,flux,...) raises: NameError when time, flux are unbound,
\* else whatever run_one raises on the light curve they are bound to
RunOneRaises(files, bound) ==
    \/ bound = Unset
    \/ bound # Unset /\ At(files, bound).fault = "run_one"

\* run_list entered: the result arrays made (lines 278-289)
InitBatch ==
    /\ variant \in Variants
    /\ ChooserIdle /\ RunOneIdle /\ MainIdle
    /\ lpc = "loop"
    /\ list_filenames \in ListsUpTo(MaxFiles)
    /\ i_file = 0
    /\ time_flux = Unset
    /\ epics = [k \in 1..Len(list_filenames) |-> 0]
    /\ results = [k \in 1..Len(list_filenames) |-> Unset]
    /\ table = <<>>

\* one iteration of for i,filename in enumerate(list_filenames); nothing in
\* run_list catches an exception, so one raised here leaves run_list
ProcessTarget ==
    /\ lpc = "loop"
    /\ i_file < Len(list_filenames)
    /\ LET f == At(list_filenames, i_file)
           bound == BoundAfter(variant, f, i_file, time_flux)
       IN  IF ReadRaises(variant, f)
           THEN /\ lpc' = "raised"
                /\ UNCHANGED <<i_file, time_flux, epics, results>>
           ELSE IF RunOneRaises(list_filenames, bound)
           THEN /\ lpc' = "raised"
                /\ time_flux' = bound
                /\ UNCHANGED <<i_file, epics, results>>
           ELSE /\ time_flux' = bound
                /\ results' = [results EXCEPT ![i_file + 1] = bound]
                /\ epics' = [epics EXCEPT ![i_file + 1] = i_file + 1]
                /\ i_file' = i_file + 1
                /\ lpc' = lpc
    /\ UNCHANGED <<variant, cvars, lsvars, rvars, mvars, list_filenames, table>>

\* after the loop: pickle.dump and at.write of the result arrays
WriteTable ==
    /\ lpc = "loop"
    /\ i_file = Len(list_filenames)
    /\ table' = [k \in 1..Len(results) |->
                    [EPIC |-> epics[k], row |-> results[k]]]
    /\ lpc' = "written"
    /\ UNCHANGED <<variant, cvars, lsvars, rvars, mvars, list_filenames,
                   i_file, time_flux, epics, results>>

NextBatch == ProcessTarget \/ WriteTable

SpecBatch == InitBatch /\ [][NextBatch]_vars

\* ----------------------------------------------------------- __main__
\* The batch driver: the job-array index picks the part of the target list
\* that goes to run_list.  A target of the list is named by its position,
\* counted from 0.

\* entries of the target list (699 in the source), job-array indices
MaxTargets == 120
MaxArrayId == 4

\* targets of one worker
Chunk == 50
\* c5_k2sff_analysis.py: the upper bound for array index 0, the array index
\* with the short last part, the length of that part
AllStars == 698
ShortArray == 4
ShortChunk == 49

Min(a, b) == IF a <= b THEN a ELSE b

\* a[lo:hi] for 0 <= lo and 0 <= hi
PySlice(a, lo, hi) ==
    LET top == Min(hi, Len(a))
    IN  IF lo >= top THEN <<>> ELSE [k \in 1..(top - lo) |-> a[lo + k]]

\* mini and maxi as the driver of variant v sets them for array index a and
\* a list of n targets
MiniOf(v, a) == IF a = 0 THEN 0 ELSE (a - 1) * Chunk

MaxiOf(v, a, n) ==
    IF v = "c5"
    THEN IF a = 0 THEN n ELSE Min((a - 1) * Chunk + Chunk, n)
    ELSE IF a = 0 THEN AllStars
         ELSE IF a = ShortArray THEN MiniOf(v, a) + ShortChunk
         ELSE MiniOf(v, a) + Chunk

\* sub_list = file_list[mini:maxi] (c5; the k2sff driver makes none)
SubListOf(v, a, fl) ==
    IF v = "c5" THEN PySlice(fl, MiniOf(v, a), MaxiOf(v, a, Len(fl))) ELSE <<>>

\* the list handed to run_list: c5 run_list(sub_list, ...), k2sff
\* run_list(test_list["filename"], ...)
RunListArg(v, a, fl) == IF v = "c5" THEN SubListOf(v, a, fl) ELSE fl

\* the target list of n entries
FileList(n) == [k \in 1..n |-> k - 1]

\* the driver started: PBS_ARRAYID and the list file are what they are
InitMain ==
    /\ variant \in Variants
    /\ ChooserIdle /\ RunOneIdle /\ BatchIdle
    /\ mpc = "start"
    /\ arrayid \in 0..MaxArrayId
    /\ \E n \in 0..MaxTargets : file_list = FileList(n)
    /\ mini = Unset /\ maxi = Unset
    /\ sub_list = <<>>

\* mini, maxi and, in c5, sub_list
SetBounds ==
    /\ mpc = "start"
    /\ mini' = MiniOf(variant, arrayid)
    /\ maxi' = MaxiOf(variant, arrayid, Len(file_list))
    /\ sub_list' = SubListOf(variant, arrayid, file_list)
    /\ mpc' = "sliced"
    /\ UNCHANGED <<variant, cvars, lsvars, rvars, bvars, arrayid, file_list>>

\* the call of run_list: list_filenames is bound to the argument
CallRunList ==
    /\ mpc = "sliced"
    /\ list_filenames' = IF variant = "c5" THEN sub_list ELSE file_list
    /\ mpc' = "called"
    /\ UNCHANGED <<variant, cvars, lsvars, rvars, arrayid, file_list, mini,
                   maxi, sub_list, lpc, i_file, time_flux, epics, results,
                   table>>

NextMain == SetBounds \/ CallRunList

SpecMain == InitMain /\ [][NextMain]_vars

\* ------------------------------------------------------------- claims

\* the recorded maximum power of extension e
RecordedPower(e) == At(peak_power, SlotOf(variant, e))

\* candidate index i passes the significance filter
Clears(i) ==
    /\ At(periodogram, i) > sigma
    /\ variant = "k2sff" => At(periods_to_test, i) < PeriodBound

\* the position of x in the array a
PosIn(a, x) == CHOOSE k \in 1..Len(a) : a[k] = x

\* the periodogram has one global maximum, at index g
UniqueMaxAt(g) ==
    \A j \in 0..(Len(periodogram) - 1) :
        j # g => At(periodogram, j) < At(periodogram, g)

HalfTags == {"half", "half-maybe"}
DblTags == {"dbl", "dbl-maybe"}

\* C1: choose_initial_k2sff returns one of the scanned extensions 2..20, and
\* the recorded maximum power of the returned extension is the largest of
\* all scanned extensions.
C1_SelectsMaxPower ==
    cpc \in {"done", "raised"} =>
        /\ cpc = "done"
        /\ best_ext \in FirstExt..LastExt
        /\ \A e \in FirstExt..LastExt :
              RecordedPower(e) <= RecordedPower(best_ext)

\* C2: with two or more significant peaks the primary is the first peak (in
\* index order) of maximum power and the secondary is the first peak of
\* maximum power among the others.
C2_PrimaryAndSecondary ==
    (pc = "done" /\ num_sig >= 2) =>
        \E i \in 1..num_sig :
            /\ \A m \in 1..num_sig : sig_powers[m] <= sig_powers[i]
            /\ \A m \in 1..(i - 1) : sig_powers[m] < sig_powers[i]
            /\ most_sig_period = sig_periods[i]
            /\ most_sig_power = sig_powers[i]
            /\ \E j \in (1..num_sig) \ {i} :
                  /\ \A m \in (1..num_sig) \ {i} : sig_powers[m] <= sig_powers[j]
                  /\ \A m \in (1..(j - 1)) \ {i} : sig_powers[m] < sig_powers[j]
                  /\ sec_period = sig_periods[j]
                  /\ sec_power = sig_powers[j]

\* three significant peaks, the second and third tied for the maximum
C2_Witness ==
    /\ pc = "done" /\ num_sig = 3
    /\ sig_powers[1] < sig_powers[2] /\ sig_powers[2] = sig_powers[3]
    /\ most_sig_period = sig_periods[2] /\ sec_period = sig_periods[3]

\* C3: when run_one returns a real primary and a real secondary, the
\* secondary power is not greater than the primary power.
C3_SecondaryNotAbovePrimary ==
    (pc = "done" /\ most_sig_power # Sentinel /\ sec_power # Sentinel) =>
        sec_power <= most_sig_power

\* three significant peaks, the first of them not the most powerful
C3_Witness ==
    /\ pc = "done" /\ num_sig = 3
    /\ sig_powers[1] < most_sig_power
    /\ sec_power # Sentinel /\ sec_power < most_sig_power

\* C4: with k >= 2 significant peaks, extra_sig = k - 2 exactly when the
\* harmonic type is not "-", otherwise extra_sig = k - 1; extra_sig >= 0.
C4_ExtraSig ==
    (pc = "done" /\ num_sig >= 2) =>
        /\ (extra_sig = num_sig - 2) <=> (harm_type # "-")
        /\ harm_type = "-" => extra_sig = num_sig - 1
        /\ extra_sig >= 0

\* three significant peaks, the two strongest a double harmonic
C4_Witness ==
    /\ pc = "done" /\ num_sig = 3
    /\ harm_type \in DblTags /\ extra_sig = 1

\* C5: with k >= 2 the tag is one of the five values, and it carries
\* "-maybe" exactly when a harmonic was assigned and
\* secondary power / primary power > 0.5.
C5_MaybeQualifier ==
    (pc = "done" /\ num_sig >= 2) =>
        /\ harm_type \in {"-"} \cup HalfTags \cup DblTags
        /\ harm_type \in {"half-maybe", "dbl-maybe"} =>
              2 * sec_power > most_sig_power
        /\ harm_type \in {"half", "dbl"} =>
              2 * sec_power <= most_sig_power

\* a half harmonic whose power ratio is 2/3
C5_Witness ==
    /\ pc = "done" /\ harm_type = "half-maybe"
    /\ most_sig_power = 3 /\ sec_power = 2

\* C6: period ratios 0.45, 0.55 and 0.549999 classify as half, 0.5500001
\* does not; 1.95 and 2.05 classify as double.
C6_InclusiveBand ==
    pc = "done" =>
        /\ <<sec_period, most_sig_period>> \in
              { <<9 * 2^16, 20 * 2^16>>, <<11 * 2^16, 20 * 2^16>>,
                <<549999, 1000000>> }
              => harm_type \in HalfTags
        /\ <<sec_period, most_sig_period>> = <<5500001, 10000000>>
              => harm_type \notin HalfTags
        /\ <<sec_period, most_sig_period>> \in
              { <<39 * 2^16, 20 * 2^16>>, <<41 * 2^16, 20 * 2^16>> }
              => harm_type \in DblTags

\* C7: when no peak passes the significance filter, run_one returns the
\* sentinel in all four peak fields, extra_sig = 0 and harm_type "-", and
\* does not raise.
C7_NoSignificantPeak ==
    (pc \in {"done", "raised"} /\ \A i \in Range(peak_locs) : ~Clears(i)) =>
        /\ pc = "done"
        /\ most_sig_period = Sentinel /\ most_sig_power = Sentinel
        /\ sec_period = Sentinel /\ sec_power = Sentinel
        /\ extra_sig = 0 /\ harm_type = "-"

C9_Filter ==
    pc \in {"rank", "classify", "done"} =>
        /\ \A i \in Range(peak_locs) : (i \in Range(sig_locs)) <=> Clears(i)
        /\ Range(sig_locs) \subseteq Range(peak_locs)
        /\ \A a, b \in 1..Len(sig_locs) :
              a < b => /\ sig_locs[a] # sig_locs[b]
                       /\ PosIn(peak_locs, sig_locs[a]) < PosIn(peak_locs, sig_locs[b])

\* k2sff: three candidates above the threshold, the last dropped by the
\* period bound
C9_Witness ==
    /\ pc = "rank" /\ variant = "k2sff"
    /\ Len(peak_locs) = 3 /\ Len(sig_locs) = 2
    /\ \A i \in Range(peak_locs) : At(periodogram, i) > sigma
    /\ At(periods_to_test, peak_locs[3]) >= PeriodBound

\* C10 as stated: a unique global maximum of an array longer than 2*order
\* is among the returned peak indices, wherever it lies.
C10_GlobalMaxIsPeak ==
    (pc # "ls" /\ Len(periodogram) > 2 * Order) =>
        \A g \in 0..(Len(periodogram) - 1) :
            UniqueMaxAt(g) => g \in Range(peak_locs)

\* C10 amended: a unique global maximum of an array longer than 2*order is
\* among the returned peak indices exactly when it is neither the first
\* nor the last element of the array.
C10_InteriorGlobalMaxIsPeak ==
    (pc # "ls" /\ Len(periodogram) > 2 * Order) =>
        \A g \in 0..(Len(periodogram) - 1) :
            UniqueMaxAt(g) =>
                ((g \in Range(peak_locs)) <=> (0 < g /\ g < Len(periodogram) - 1))

\* the unique global maximum next to the first element, returned
C10_Witness ==
    /\ pc = "print" /\ Len(periodogram) > 2 * Order
    /\ UniqueMaxAt(1) /\ 1 \in Range(peak_locs)

\* C13: run_one takes the ratios secondary / primary only with two or more
\* significant peaks, and then each of the four operands is the period or
\* the power at a significant peak index (the two indices different) and is
\* neither zero nor the sentinel.
C13_DivisionSafe ==
    (pc = "done" /\ divided # <<>>) =>
        /\ num_sig >= 2
        /\ \A k \in 1..4 : divided[k] # 0 /\ divided[k] # Sentinel
        /\ \E i, j \in Range(sig_locs) :
              /\ i # j
              /\ divided = <<At(periods_to_test, j), At(periods_to_test, i),
                             At(periodogram, j), At(periodogram, i)>>

\* the ratios taken of two peaks that clear a threshold of zero
C13_Witness ==
    /\ pc = "done" /\ num_sig = 2 /\ sigma = 0
    /\ divided = <<sec_period, most_sig_period, sec_power, most_sig_power>>

\* C11: a target whose processing raises does not abort run_list: run_list
\* ends by writing the table, and the table has the row of every target
\* whose processing does not raise.
C11_ErrorIsolation ==
    lpc \in {"written", "raised"} =>
        /\ lpc = "written"
        /\ \A k \in 1..Len(list_filenames) :
              list_filenames[k].fault = "none" =>
                  table[k].EPIC = k /\ table[k].row # Unset

\* C12: every result row that run_list has filled was computed from the
\* light curve read from that row's own target.
C12_NoReuse ==
    \A k \in 1..Len(results) : results[k] # Unset => results[k] = k - 1

\* the positions lo .. hi-1 in ascending order
Positions(lo, hi) == IF hi <= lo THEN <<>> ELSE [k \in 1..(hi - lo) |-> lo + k - 1]

\* ceil(n / Chunk)
Workers(n) == (n + Chunk - 1) \div Chunk

\* C14: the worker with array index a >= 1 hands run_list exactly the
\* targets at positions (a-1)*50 .. min((a-1)*50+50, n) - 1, array index 0
\* the whole list; every target is in the part of exactly one of the
\* workers 1..ceil(n/50).
C14_Partition ==
    mpc = "called" =>
        LET n == Len(file_list)
        IN  /\ arrayid = 0 => list_filenames = file_list
            /\ arrayid >= 1 =>
                  list_filenames = Positions((arrayid - 1) * 50,
                                             Min((arrayid - 1) * 50 + 50, n))
            /\ \A p \in 0..(n - 1) :
                  Cardinality({a \in 1..Workers(n) :
                      p \in Range(RunListArg(variant, a, file_list))}) = 1
====
